---- MODULE Spec2Model ----
(***************************************************************************)
(* Batch caption orchestration of scripts/batch_caption.py: image          *)
(* discovery, skip/overwrite policy, backend dispatch with timeout,        *)
(* result classification, caption persistence and the progress protocol.   *)
(*                                                                         *)
(* Text (file names, captions, templates, process output) is a sequence of *)
(* one-character strings, so that strip, startswith, replace, suffix and   *)
(* sorting are computed as Python computes them.                           *)
(*                                                                         *)
(* Environment assumption: writes to standard output (print) succeed.      *)
(***************************************************************************)
EXTENDS Integers, Sequences, FiniteSets, TLC

VARIABLES pc, args, folder, dir, image_files, idx,
          processed_files, skipped_files, failed_files,
          events, exitcode, spawned, running,
          dir0,   \* history: the folder as it was when the run started
          last    \* history: the image handled last and what happened to it

vars == <<pc, args, folder, dir, image_files, idx,
          processed_files, skipped_files, failed_files,
          events, exitcode, spawned, running, dir0, last>>

(***************************************************************************)
(* Bounds of the model                                                     *)
(***************************************************************************)
MaxImages == 2

(***************************************************************************)
(* Text helpers (Python str operations)                                    *)
(***************************************************************************)
Whitespace == {" ", "\n", "\t"}

RECURSIVE LStrip(_)
LStrip(s) ==
  IF s # <<>> /\ Head(s) \in Whitespace THEN LStrip(Tail(s)) ELSE s

RECURSIVE RStrip(_)
RStrip(s) ==
  IF s # <<>> /\ s[Len(s)] \in Whitespace
  THEN RStrip(SubSeq(s, 1, Len(s) - 1)) ELSE s

\* str.strip()
Strip(s) == RStrip(LStrip(s))

\* str.startswith(p)
StartsWith(s, p) == Len(s) >= Len(p) /\ SubSeq(s, 1, Len(p)) = p

\* p in s
Contains(s, p) ==
  \E k \in 1..(Len(s) - Len(p) + 1) : SubSeq(s, k, k + Len(p) - 1) = p

\* str.replace(old, new): every non-overlapping occurrence, left to right
RECURSIVE Replace(_, _, _)
Replace(s, old, new) ==
  IF s = <<>> THEN <<>>
  ELSE IF StartsWith(s, old)
       THEN new \o Replace(SubSeq(s, Len(old) + 1, Len(s)), old, new)
       ELSE <<Head(s)>> \o Replace(Tail(s), old, new)

\* str.lower() on the characters that occur in the modelled file names
Lower(s) ==
  [k \in 1..Len(s) |->
     CASE s[k] = "P" -> "p"
       [] s[k] = "N" -> "n"
       [] s[k] = "G" -> "g"
       [] s[k] = "J" -> "j"
       [] OTHER -> s[k]]

\* code points of the characters that occur in the modelled file names
Ord(c) ==
  CASE c = "." -> 46
    [] c = "G" -> 71
    [] c = "J" -> 74
    [] c = "N" -> 78
    [] c = "P" -> 80
    [] c = "a" -> 97
    [] c = "b" -> 98
    [] c = "e" -> 101
    [] c = "f" -> 102
    [] c = "g" -> 103
    [] c = "i" -> 105
    [] c = "j" -> 106
    [] c = "n" -> 110
    [] c = "p" -> 112
    [] c = "t" -> 116
    [] c = "x" -> 120
    [] OTHER -> 0

\* s < t for Python str (lexicographic by code point)
RECURSIVE StrLess(_, _)
StrLess(s, t) ==
  IF t = <<>> THEN FALSE
  ELSE IF s = <<>> THEN TRUE
  ELSE IF Ord(Head(s)) # Ord(Head(t)) THEN Ord(Head(s)) < Ord(Head(t))
  ELSE StrLess(Tail(s), Tail(t))

\* sorted(set of paths in one folder)
RECURSIVE Sorted(_)
Sorted(S) ==
  IF S = {} THEN <<>>
  ELSE LET m == CHOOSE x \in S : \A y \in S \ {x} : StrLess(x, y)
       IN <<m>> \o Sorted(S \ {m})

\* str.rfind("."), 1-based; 0 when there is no dot
RFindDot(name) ==
  IF \E k \in 1..Len(name) : name[k] = "."
  THEN CHOOSE k \in 1..Len(name) :
         name[k] = "." /\ \A j \in (k + 1)..Len(name) : name[j] # "."
  ELSE 0

\* pathlib PurePath.suffix
Suffix(name) ==
  LET k == RFindDot(name)
  IN IF 1 < k /\ k < Len(name) THEN SubSeq(name, k, Len(name)) ELSE <<>>

\* pathlib PurePath.with_suffix(suffix)
WithSuffix(name, suffix) ==
  SubSeq(name, 1, Len(name) - Len(Suffix(name))) \o suffix

SeqToSet(s) == {s[k] : k \in 1..Len(s)}

(***************************************************************************)
(* Python values, and json.loads on the grammar                            *)
(*   value ::= null | true | false | digits | "chars" | [] | [value]       *)
(*           | {} | {"key": value}                                         *)
(* with optional whitespace between tokens.  Every other text of the model *)
(* (none contains a comma, a sign or an escape) is not JSON.               *)
(***************************************************************************)
Digits == {"0", "1", "2", "3", "4", "5", "6", "7", "8", "9"}

Invalid == [t |-> "invalid", v |-> <<>>]
PyNone == [t |-> "null", v |-> <<>>]
PyStr(s) == [t |-> "str", v |-> s]

T_null == <<"n", "u", "l", "l">>
T_true == <<"t", "r", "u", "e">>
T_false == <<"f", "a", "l", "s", "e">>

\* 1-based position of the first double quote of s after position 1, or 0
ClosingQuote(s) ==
  IF \E k \in 2..Len(s) : s[k] = "\""
  THEN CHOOSE k \in 2..Len(s) :
         s[k] = "\"" /\ \A j \in 2..(k - 1) : s[j] # "\""
  ELSE 0

IsJsonString(s) ==
  /\ Len(s) >= 2
  /\ s[1] = "\""
  /\ ClosingQuote(s) = Len(s)
  /\ \A k \in 2..(Len(s) - 1) : s[k] \notin {"\\", "\n", "\t"}

RECURSIVE ParseValue(_)
ParseValue(s) ==
  IF s = <<>> THEN Invalid
  ELSE IF s = T_null THEN PyNone
  ELSE IF s = T_true THEN [t |-> "bool", v |-> T_true]
  ELSE IF s = T_false THEN [t |-> "bool", v |-> <<>>]
  ELSE IF (\A k \in 1..Len(s) : s[k] \in Digits) /\ (Len(s) = 1 \/ s[1] # "0")
       THEN [t |-> "num", v |-> s]
  ELSE IF IsJsonString(s) THEN PyStr(SubSeq(s, 2, Len(s) - 1))
  ELSE IF Len(s) >= 2 /\ s[1] = "[" /\ s[Len(s)] = "]"
       THEN LET inner == Strip(SubSeq(s, 2, Len(s) - 1))
            IN IF inner = <<>> THEN [t |-> "list", v |-> <<>>]
               ELSE LET e == ParseValue(inner)
                    IN IF e.t = "invalid" THEN Invalid
                       ELSE [t |-> "list", v |-> <<e>>]
  ELSE IF Len(s) >= 2 /\ s[1] = "{" /\ s[Len(s)] = "}"
       THEN LET inner == Strip(SubSeq(s, 2, Len(s) - 1))
                q == ClosingQuote(inner)
            IN IF inner = <<>> THEN [t |-> "dict", v |-> <<>>]
               ELSE IF inner[1] # "\"" \/ q = 0
                       \/ ~IsJsonString(SubSeq(inner, 1, q))
                    THEN Invalid
               ELSE LET key == SubSeq(inner, 2, q - 1)
                        rest == Strip(SubSeq(inner, q + 1, Len(inner)))
                    IN IF rest = <<>> \/ rest[1] # ":" THEN Invalid
                       ELSE LET e == ParseValue(Strip(Tail(rest)))
                            IN IF e.t = "invalid" THEN Invalid
                               ELSE [t |-> "dict",
                                     v |-> <<[key |-> key, val |-> e]>>]
  ELSE Invalid

\* json.loads(s): a Python value, or Invalid for json.JSONDecodeError
JsonLoads(s) == ParseValue(Strip(s))

\* bool(value)
Truthy(x) ==
  CASE x.t = "str" -> x.v # <<>>
    [] x.t = "null" -> FALSE
    [] x.t = "bool" -> x.v # <<>>
    [] x.t = "num" -> x.v # <<"0">>
    [] x.t = "list" -> x.v # <<>>
    [] x.t = "dict" -> x.v # <<>>
    [] OTHER -> FALSE

(***************************************************************************)
(* Text constants of batch_caption.py                                      *)
(***************************************************************************)
\* the reserved error marker tested by main()
T_Error ==
  <<"E", "r", "r", "o", "r">>

T_ErrorPrefix ==
  <<"E", "r", "r", "o", "r", ":", " ">>

T_UnknownError ==
  <<"U", "n", "k", "n", "o", "w", "n", " ", "e", "r", "r", "o", "r">>

T_TimedOut ==
  <<"E", "r", "r", "o", "r", ":", " ", "C", "a", "p", "t", "i", "o", "n",
   " ", "g", "e", "n", "e", "r", "a", "t", "i", "o", "n", " ", "t", "i",
   "m", "e", "d", " ", "o", "u", "t">>

T_NoCaption ==
  <<"N", "o", " ", "c", "a", "p", "t", "i", "o", "n", " ", "g", "e", "n",
   "e", "r", "a", "t", "e", "d">>

T_UnsupportedModel ==
  <<"U", "n", "s", "u", "p", "p", "o", "r", "t", "e", "d", " ", "m", "o",
   "d", "e", "l", ":", " ">>

T_NoAttrGet ==
  <<"'", " ", "o", "b", "j", "e", "c", "t", " ", "h", "a", "s", " ", "n",
   "o", " ", "a", "t", "t", "r", "i", "b", "u", "t", "e", " ", "'", "g",
   "e", "t", "'">>

T_captionKey ==
  <<"c", "a", "p", "t", "i", "o", "n">>

T_placeholder ==
  <<"{", "c", "a", "p", "t", "i", "o", "n", "}">>

T_txt ==
  <<".", "t", "x", "t">>

T_ellipsis ==
  <<".", ".", ".">>

\* backend identifiers
M_blip ==
  <<"b", "l", "i", "p">>

M_blip2 ==
  <<"b", "l", "i", "p", "2">>

M_gpt4v ==
  <<"g", "p", "t", "-", "4", "-", "v", "i", "s", "i", "o", "n">>

M_vitgpt2 ==
  <<"v", "i", "t", "-", "g", "p", "t", "2">>

M_florence2 ==
  <<"f", "l", "o", "r", "e", "n", "c", "e", "-", "2">>

\* an identifier outside the supported set
M_other ==
  <<"l", "l", "a", "v", "a">>

\* caption styles
S_detailed ==
  <<"d", "e", "t", "a", "i", "l", "e", "d">>

S_simple ==
  <<"s", "i", "m", "p", "l", "e">>

S_tags ==
  <<"t", "a", "g", "s">>

S_artistic ==
  <<"a", "r", "t", "i", "s", "t", "i", "c">>

\* worker scripts
P_blip ==
  <<"g", "e", "n", "e", "r", "a", "t", "e", "_", "b", "l", "i", "p", "_",
   "c", "a", "p", "t", "i", "o", "n", ".", "p", "y">>

P_gpt4v ==
  <<"g", "e", "n", "e", "r", "a", "t", "e", "_", "g", "p", "t", "4", "v",
   "_", "c", "a", "p", "t", "i", "o", "n", ".", "p", "y">>

P_ofa ==
  <<"g", "e", "n", "e", "r", "a", "t", "e", "_", "o", "f", "a", "_", "c",
   "a", "p", "t", "i", "o", "n", ".", "p", "y">>

P_florence2 ==
  <<"g", "e", "n", "e", "r", "a", "t", "e", "_", "f", "l", "o", "r", "e",
   "n", "c", "e", "2", "_", "c", "a", "p", "t", "i", "o", "n", ".", "p",
   "y">>

\* worker flags and fixed argument values
A_image_path ==
  <<"-", "-", "i", "m", "a", "g", "e", "_", "p", "a", "t", "h">>

A_model_type ==
  <<"-", "-", "m", "o", "d", "e", "l", "_", "t", "y", "p", "e">>

A_max_tokens ==
  <<"-", "-", "m", "a", "x", "_", "t", "o", "k", "e", "n", "s">>

A_max_length ==
  <<"-", "-", "m", "a", "x", "_", "l", "e", "n", "g", "t", "h">>

A_style ==
  <<"-", "-", "s", "t", "y", "l", "e">>

A_model_id ==
  <<"-", "-", "m", "o", "d", "e", "l", "_", "i", "d">>

A_prompt ==
  <<"-", "-", "p", "r", "o", "m", "p", "t">>

V_large ==
  <<"l", "a", "r", "g", "e">>

V_base ==
  <<"b", "a", "s", "e">>

V_florence_base ==
  <<"m", "i", "c", "r", "o", "s", "o", "f", "t", "/", "F", "l", "o", "r",
   "e", "n", "c", "e", "-", "2", "-", "b", "a", "s", "e">>

V_more_detailed ==
  <<"<", "M", "O", "R", "E", "_", "D", "E", "T", "A", "I", "L", "E", "D",
   "_", "C", "A", "P", "T", "I", "O", "N", ">">>

\* sys.executable
V_python ==
  <<"p", "y", "t", "h", "o", "n">>

\* type(x).__name__
TypeName(x) ==
  CASE x.t = "str" -> <<"s", "t", "r">>
    [] x.t = "null" -> <<"N", "o", "n", "e", "T", "y", "p", "e">>
    [] x.t = "bool" -> <<"b", "o", "o", "l">>
    [] x.t = "num" -> <<"i", "n", "t">>
    [] x.t = "list" -> <<"l", "i", "s", "t">>
    [] OTHER -> <<"d", "i", "c", "t">>

DigitChars == <<"0", "1", "2", "3", "4", "5", "6", "7", "8", "9">>

\* str(n) for an int n >= 0
RECURSIVE IntToText(_)
IntToText(n) ==
  IF n < 10 THEN <<DigitChars[n + 1]>>
  ELSE IntToText(n \div 10) \o <<DigitChars[(n % 10) + 1]>>

(***************************************************************************)
(* Program constants                                                       *)
(***************************************************************************)
IMAGE_EXTENSIONS ==
  { <<".", "j", "p", "g">>, <<".", "j", "p", "e", "g">>,
    <<".", "p", "n", "g">>, <<".", "b", "m", "p">>,
    <<".", "t", "i", "f", "f">>, <<".", "w", "e", "b", "p">> }

\* argparse choices of --model and --style
ModelChoices == {M_blip, M_blip2, M_gpt4v, M_vitgpt2, M_florence2}

StyleChoices == {S_detailed, S_simple, S_tags, S_artistic}

\* length above which the caption of a file_processed event is truncated
TruncLimit == 100

\* timeout, in seconds, of one backend invocation
BackendTimeout == 120

\* exit status of argparse on a usage error
ArgparseErrorExit == 2

(***************************************************************************)
(* The file system: the entries of the source folder                       *)
(***************************************************************************)
Absent == [e |-> FALSE, data |-> <<>>]
File(d) == [e |-> TRUE, data |-> d]

\* find_image_files on an existing folder
find_image_files(d) ==
  Sorted({n \in DOMAIN d : d[n].e /\ Lower(Suffix(n)) \in IMAGE_EXTENSIONS})

caption_path(image) == WithSuffix(image, T_txt)

caption_exists(d, image) == d[caption_path(image)].e

\* mutant of ShouldSkip: the overwrite flag is ignored
ShouldSkip_NoFlag(overwrite, d, image) == caption_exists(d, image)

\* line 162: not args.overwrite and caption_exists(image_path)
ShouldSkip(overwrite, d, image) == ~overwrite /\ caption_exists(d, image)

\* mutant of FinalCaption: the template is ignored
FinalCaption_IgnoreTemplate(caption, template) == caption

\* the text save_caption writes
FinalCaption(caption, template) ==
  IF Truthy(template) /\ Contains(template.v, T_placeholder)
  THEN Replace(template.v, T_placeholder, caption)
  ELSE caption

\* save_caption; how is the outcome of open/write: "ok", "open_failed"
\* (open raises, nothing changes) or "write_failed" (the file was opened
\* for writing, hence truncated, and the write raises)
save_caption(d, image, caption, template, how) ==
  CASE how = "ok" ->
         [d EXCEPT ![caption_path(image)] =
                      File(FinalCaption(caption, template))]
    [] how = "write_failed" -> [d EXCEPT ![caption_path(image)] = File(<<>>)]
    [] OTHER -> d

(***************************************************************************)
(* Backend Invoker: generate_caption_for_image                             *)
(***************************************************************************)
\* the command line, or ok = FALSE for the ValueError of an unsupported model
BuildCmd(image_str, model, style, max_tokens) ==
  IF model \in {M_blip, M_blip2}
  THEN [ok |-> TRUE,
        cmd |-> <<V_python, P_blip, A_image_path, image_str,
                  A_model_type, IF model = M_blip2 THEN V_large ELSE V_base,
                  A_max_tokens, IntToText(max_tokens), A_style, style>>]
  ELSE IF model = M_gpt4v
  THEN [ok |-> TRUE,
        cmd |-> <<V_python, P_gpt4v, A_image_path, image_str,
                  A_style, style, A_max_tokens, IntToText(max_tokens)>>]
  ELSE IF model = M_vitgpt2
  THEN [ok |-> TRUE,
        cmd |-> <<V_python, P_ofa, A_image_path, image_str,
                  A_max_length, IntToText(max_tokens), A_style, style>>]
  ELSE IF model = M_florence2
  THEN [ok |-> TRUE,
        cmd |-> <<V_python, P_florence2, A_image_path, image_str,
                  A_model_id, V_florence_base, A_prompt, V_more_detailed>>]
  ELSE [ok |-> FALSE, cmd |-> <<>>]

\* outcomes of subprocess.run(cmd, capture_output, text, timeout=120)
Timeout == [kind |-> "timeout", returncode |-> 0, stdout |-> <<>>,
            stderr |-> <<>>]
Exit(rc, out, err) == [kind |-> "exit", returncode |-> rc, stdout |-> out,
                       stderr |-> err]
NoResult == [kind |-> "none", returncode |-> 0, stdout |-> <<>>,
             stderr |-> <<>>]

\* response.get('caption', 'No caption generated') on a dict
DictGet(x, key, default) ==
  IF \E k \in 1..Len(x.v) : x.v[k].key = key
  THEN x.v[CHOOSE k \in 1..Len(x.v) : x.v[k].key = key].val
  ELSE default

\* mutant of ReturnValue: the timeout text lacks the "Error: " prefix
ReturnValue_TimeoutNoMarker(model, result) ==
  IF result.kind = "timeout"
  THEN PyStr(SubSeq(T_TimedOut, Len(T_ErrorPrefix) + 1, Len(T_TimedOut)))
  ELSE IF result.returncode = 0
  THEN IF model = M_florence2
       THEN LET response == JsonLoads(Strip(result.stdout))
            IN IF response.t = "invalid" THEN PyStr(Strip(result.stdout))
               ELSE IF response.t = "dict"
                    THEN DictGet(response, T_captionKey, PyStr(T_NoCaption))
                    ELSE PyStr(T_ErrorPrefix \o <<"'">> \o TypeName(response)
                               \o T_NoAttrGet)
       ELSE PyStr(Strip(result.stdout))
  ELSE PyStr(T_ErrorPrefix \o
             (IF Strip(result.stderr) # <<>> THEN Strip(result.stderr)
              ELSE T_UnknownError))

\* mutant of ReturnValue: a JSONDecodeError is handled by the generic
\* handler, so malformed JSON becomes an error text
ReturnValue_NoJsonFallback(model, result) ==
  IF result.kind = "timeout" THEN PyStr(T_TimedOut)
  ELSE IF result.returncode = 0
  THEN IF model = M_florence2
       THEN LET response == JsonLoads(Strip(result.stdout))
            IN IF response.t = "invalid"
               THEN PyStr(T_ErrorPrefix \o Strip(result.stdout))
               ELSE IF response.t = "dict"
                    THEN DictGet(response, T_captionKey, PyStr(T_NoCaption))
                    ELSE PyStr(T_ErrorPrefix \o <<"'">> \o TypeName(response)
                               \o T_NoAttrGet)
       ELSE PyStr(Strip(result.stdout))
  ELSE PyStr(T_ErrorPrefix \o
             (IF Strip(result.stderr) # <<>> THEN Strip(result.stderr)
              ELSE T_UnknownError))

\* mutant of ReturnValue: the exit status is not looked at, standard output
\* is the caption whenever the worker ended by itself
ReturnValue_IgnoreReturncode(model, result) ==
  IF result.kind = "timeout" THEN PyStr(T_TimedOut)
  ELSE IF model = M_florence2
       THEN LET response == JsonLoads(Strip(result.stdout))
            IN IF response.t = "invalid" THEN PyStr(Strip(result.stdout))
               ELSE IF response.t = "dict"
                    THEN DictGet(response, T_captionKey, PyStr(T_NoCaption))
                    ELSE PyStr(T_ErrorPrefix \o <<"'">> \o TypeName(response)
                               \o T_NoAttrGet)
       ELSE PyStr(Strip(result.stdout))

\* the value generate_caption_for_image returns once subprocess.run is over
ReturnValue(model, result) ==
  IF result.kind = "timeout" THEN PyStr(T_TimedOut)
  ELSE IF result.returncode = 0
  THEN IF model = M_florence2
       THEN LET response == JsonLoads(Strip(result.stdout))
            IN IF response.t = "invalid" THEN PyStr(Strip(result.stdout))
               ELSE IF response.t = "dict"
                    THEN DictGet(response, T_captionKey, PyStr(T_NoCaption))
                    ELSE PyStr(T_ErrorPrefix \o <<"'">> \o TypeName(response)
                               \o T_NoAttrGet)
       ELSE PyStr(Strip(result.stdout))
  ELSE PyStr(T_ErrorPrefix \o
             (IF Strip(result.stderr) # <<>> THEN Strip(result.stderr)
              ELSE T_UnknownError))

\* the value returned when the model is unsupported (ValueError caught)
UnsupportedValue(model) == PyStr(T_ErrorPrefix \o T_UnsupportedModel \o model)

(***************************************************************************)
(* Inputs of the model                                                     *)
(***************************************************************************)
\* candidate entries of the source folder
N_a_jpg ==
  <<"a", ".", "j", "p", "g">>

N_a_PNG ==
  <<"a", ".", "P", "N", "G">>

N_b_jpg ==
  <<"b", ".", "j", "p", "g">>

N_b_gif ==
  <<"b", ".", "g", "i", "f">>

N_a_txt ==
  <<"a", ".", "t", "x", "t">>

N_b_txt ==
  <<"b", ".", "t", "x", "t">>

\* content of a sidecar that exists before the run
T_old ==
  <<"o", "l", "d">>

\* --source_folder
T_SourceFolder ==
  <<"i", "n">>

\* templates
Tpl_photo ==
  <<"P", "h", "o", "t", "o", " ", "o", "f", " ", "{", "c", "a", "p", "t",
   "i", "o", "n", "}">>

Tpl_plain ==
  <<"f", "i", "x", "e", "d">>

\* standard output texts of a backend
O_cat ==
  <<" ", "a", " ", "c", "a", "t", "\n">>

O_error ==
  <<"E", "r", "r", "o", "r", ":", " ", "x">>

O_json_cat ==
  <<"{", "\"", "c", "a", "p", "t", "i", "o", "n", "\"", ":", " ", "\"",
   "a", " ", "c", "a", "t", "\"", "}", "\n">>

O_json_empty ==
  <<"{", "\"", "c", "a", "p", "t", "i", "o", "n", "\"", ":", " ", "\"",
   "\"", "}">>

O_json_error ==
  <<"{", "\"", "c", "a", "p", "t", "i", "o", "n", "\"", ":", " ", "\"",
   "E", "r", "r", "o", "r", ":", " ", "x", "\"", "}">>

O_json_null ==
  <<"{", "\"", "c", "a", "p", "t", "i", "o", "n", "\"", ":", " ", "n", "u",
   "l", "l", "}">>

O_json_num ==
  <<"{", "\"", "c", "a", "p", "t", "i", "o", "n", "\"", ":", " ", "5",
   "}">>

O_json_nokey ==
  <<"{", "\"", "t", "e", "x", "t", "\"", ":", " ", "\"", "a", " ", "c",
   "a", "t", "\"", "}">>

O_json_list ==
  <<"[", "\"", "a", " ", "c", "a", "t", "\"", "]">>

O_json_cut ==
  <<"{", "\"", "c", "a", "p", "t", "i", "o", "n", "\"", ":", " ", "\"",
   "a", " ", "c">>

\* standard error texts of a backend
E_boom ==
  <<" ", "b", "o", "o", "m", "\n">>

ImageNames == {N_a_jpg, N_a_PNG, N_b_jpg}

FileNames == ImageNames \cup {N_b_gif, N_a_txt, N_b_txt}

Templates == {PyNone, PyStr(Tpl_photo), PyStr(Tpl_plain)}

\* a caption one character longer than the display limit of line 194
O_long == [k \in 1..(TruncLimit + 1) |-> "x"]

\* standard error that holds only whitespace
E_blank == <<" ", "\n">>

Stdouts ==
  { <<>>, O_cat, O_error, O_json_cat, O_json_empty, O_json_error,
    O_json_null, O_json_num, O_json_nokey, O_json_list, O_json_cut, O_long }

Stderrs == { <<>>, E_blank, E_boom }

\* a worker that fails may have printed to standard output as well
Results ==
  {Timeout} \cup {Exit(1, IF e = E_boom THEN O_cat ELSE <<>>, e) : e \in Stderrs}
            \cup {Exit(0, o, <<>>) : o \in Stdouts}

SaveOutcomes == {"ok", "open_failed", "write_failed"}

InitialContent(n) ==
  IF n \in {N_a_txt, N_b_txt} THEN File(T_old) ELSE File(<<>>)

(***************************************************************************)
(* Progress protocol: one event per printed line                           *)
(***************************************************************************)
Msg(fmt, a) == [fmt |-> fmt, args |-> a]

ErrorEvent(m) == [type |-> "error", message |-> m]

ProgressEvent(m) == [type |-> "progress", message |-> m]

ProcessingEvent(current, total, name) ==
  [type |-> "progress",
   message |-> Msg("Processing {}/{}: {}", <<current, total, name>>),
   current |-> current, total |-> total, filename |-> name]

\* mutant of Truncated: a long caption is cut without the ellipsis
Truncated_NoEllipsis(caption) ==
  IF Len(caption) > TruncLimit
  THEN SubSeq(caption, 1, TruncLimit)
  ELSE caption

\* caption[:100] + "..." if len(caption) > 100 else caption
Truncated(caption) ==
  IF Len(caption) > TruncLimit
  THEN SubSeq(caption, 1, TruncLimit) \o T_ellipsis
  ELSE caption

FileProcessedEvent(name, caption) ==
  [type |-> "file_processed", filename |-> name,
   caption |-> Truncated(caption)]

SummaryEvent(total, processed, skipped, failed) ==
  [type |-> "summary", total_files |-> total, processed |-> Len(processed),
   skipped |-> Len(skipped), failed |-> Len(failed),
   processed_files |-> processed]

(***************************************************************************)
(* Batch Orchestrator: main()                                              *)
(***************************************************************************)
NoExit == -1

NoLast == [name |-> <<>>, dispatched |-> FALSE, result |-> NoResult,
           value |-> PyNone, save |-> "none"]

Init ==
  /\ pc = "parse"
  /\ args \in [model : ModelChoices \cup {M_other},
               style : {S_tags},
               max_tokens : {77},
               template : Templates,
               overwrite : BOOLEAN]
  /\ folder \in BOOLEAN
  /\ dir \in [FileNames -> {Absent} \cup {InitialContent(n) : n \in FileNames}]
  /\ \A n \in FileNames : dir[n].e => folder /\ dir[n] = InitialContent(n)
  /\ folder => dir[N_b_gif].e
  /\ dir0 = dir
  /\ Cardinality({n \in ImageNames : dir[n].e}) <= MaxImages
  /\ image_files = <<>>
  /\ idx = 0
  /\ processed_files = <<>>
  /\ skipped_files = <<>>
  /\ failed_files = <<>>
  /\ events = <<>>
  /\ exitcode = NoExit
  /\ spawned = <<>>
  /\ running = <<>>
  /\ last = NoLast

\* mutant of ParseArgs: --model is declared without choices
ParseArgs_NoChoices ==
  /\ pc = "parse"
  /\ pc' = "discover"
  /\ UNCHANGED <<args, folder, dir0, dir, image_files, idx, processed_files,
                 skipped_files, failed_files, events, exitcode, spawned,
                 running, last>>

\* parser.parse_args(): an identifier outside choices is a usage error
ParseArgs ==
  /\ pc = "parse"
  /\ IF args.model \in ModelChoices /\ args.style \in StyleChoices
     THEN pc' = "discover" /\ exitcode' = exitcode
     ELSE pc' = "done" /\ exitcode' = ArgparseErrorExit
  /\ UNCHANGED <<args, folder, dir0, dir, image_files, idx, processed_files,
                 skipped_files, failed_files, events, spawned, running, last>>

\* mutant of Discover: find_image_files reports the missing folder itself
\* before raising, so the error is printed twice
Discover_ErrorTwice ==
  /\ pc = "discover"
  /\ IF ~folder
     THEN /\ events' = events \o
                 << ErrorEvent(Msg("Source folder does not exist: {}",
                                   <<T_SourceFolder>>)),
                    ErrorEvent(Msg("Batch caption generation failed: {}",
                                   <<T_SourceFolder>>)) >>
          /\ exitcode' = 1
          /\ pc' = "done"
          /\ UNCHANGED <<image_files, idx>>
     ELSE IF find_image_files(dir) = <<>>
     THEN /\ events' = Append(events, ErrorEvent(
                 Msg("No image files found in {}", <<T_SourceFolder>>)))
          /\ exitcode' = 0
          /\ pc' = "done"
          /\ UNCHANGED <<image_files, idx>>
     ELSE /\ image_files' = find_image_files(dir)
          /\ events' = Append(events, ProgressEvent(
                 Msg("Found {} images to process",
                     <<Len(find_image_files(dir))>>)))
          /\ idx' = 1
          /\ pc' = "loop"
          /\ UNCHANGED exitcode
  /\ UNCHANGED <<args, folder, dir0, dir, processed_files, skipped_files,
                 failed_files, spawned, running, last>>

\* mutant of Discover: the test `if not image_files` is missing, so an
\* empty list goes through the loop to the summary
Discover_NoEmptyCheck ==
  /\ pc = "discover"
  /\ IF ~folder
     THEN /\ events' = Append(events, ErrorEvent(
                 Msg("Batch caption generation failed: {}", <<T_SourceFolder>>)))
          /\ exitcode' = 1
          /\ pc' = "done"
          /\ UNCHANGED <<image_files, idx>>
     ELSE /\ image_files' = find_image_files(dir)
          /\ events' = Append(events, ProgressEvent(
                 Msg("Found {} images to process",
                     <<Len(find_image_files(dir))>>)))
          /\ idx' = 1
          /\ pc' = "loop"
          /\ UNCHANGED exitcode
  /\ UNCHANGED <<args, folder, dir0, dir, processed_files, skipped_files,
                 failed_files, spawned, running, last>>

\* find_image_files and the start of the run
Discover ==
  /\ pc = "discover"
  /\ IF ~folder
     THEN \* ValueError, caught by the outer handler
          /\ events' = Append(events, ErrorEvent(
                 Msg("Batch caption generation failed: {}", <<T_SourceFolder>>)))
          /\ exitcode' = 1
          /\ pc' = "done"
          /\ UNCHANGED <<image_files, idx>>
     ELSE IF find_image_files(dir) = <<>>
     THEN /\ events' = Append(events, ErrorEvent(
                 Msg("No image files found in {}", <<T_SourceFolder>>)))
          /\ exitcode' = 0
          /\ pc' = "done"
          /\ UNCHANGED <<image_files, idx>>
     ELSE /\ image_files' = find_image_files(dir)
          /\ events' = Append(events, ProgressEvent(
                 Msg("Found {} images to process",
                     <<Len(find_image_files(dir))>>)))
          /\ idx' = 1
          /\ pc' = "loop"
          /\ UNCHANGED exitcode
  /\ UNCHANGED <<args, folder, dir0, dir, processed_files, skipped_files,
                 failed_files, spawned, running, last>>

\* mutant of Classify: the image is recorded as processed before
\* save_caption is called, so a failing save leaves it in both lists
Classify_AppendFirst(image, result, value, how, ev) ==
  IF Truthy(value) /\ value.t = "str" /\ ~StartsWith(value.v, T_Error)
  THEN /\ dir' = save_caption(dir, image, value.v, args.template, how)
       /\ processed_files' = Append(processed_files, image)
       /\ failed_files' = IF how = "ok" THEN failed_files
                          ELSE Append(failed_files, image)
       /\ events' = IF how = "ok"
                    THEN Append(ev, FileProcessedEvent(image, value.v))
                    ELSE ev
       /\ last' = [name |-> image, dispatched |-> TRUE,
                   result |-> result, value |-> value, save |-> how]
  ELSE /\ failed_files' = Append(failed_files, image)
       /\ last' = [name |-> image, dispatched |-> TRUE,
                   result |-> result, value |-> value, save |-> "none"]
       /\ events' = ev
       /\ UNCHANGED <<dir, processed_files>>

\* mutant of Classify: the test is only `not caption.startswith("Error")`
Classify_NoEmptyCheck(image, result, value, how, ev) ==
  IF value.t = "str" /\ ~StartsWith(value.v, T_Error)
  THEN IF how = "ok"
       THEN /\ dir' = save_caption(dir, image, value.v, args.template, how)
            /\ processed_files' = Append(processed_files, image)
            /\ events' = Append(ev, FileProcessedEvent(image, value.v))
            /\ last' = [name |-> image, dispatched |-> TRUE,
                        result |-> result, value |-> value, save |-> how]
            /\ UNCHANGED failed_files
       ELSE /\ dir' = save_caption(dir, image, value.v, args.template, how)
            /\ failed_files' = Append(failed_files, image)
            /\ last' = [name |-> image, dispatched |-> TRUE,
                        result |-> result, value |-> value, save |-> how]
            /\ events' = ev
            /\ UNCHANGED processed_files
  ELSE /\ failed_files' = Append(failed_files, image)
       /\ last' = [name |-> image, dispatched |-> TRUE,
                   result |-> result, value |-> value, save |-> "none"]
       /\ events' = ev
       /\ UNCHANGED <<dir, processed_files>>

\* mutant of Classify: the per-image handler logs the exception but does
\* not record the image as failed
Classify_ExceptionDropped(image, result, value, how, ev) ==
  IF Truthy(value) /\ value.t = "str" /\ ~StartsWith(value.v, T_Error)
  THEN IF how = "ok"
       THEN /\ dir' = save_caption(dir, image, value.v, args.template, how)
            /\ processed_files' = Append(processed_files, image)
            /\ events' = Append(ev, FileProcessedEvent(image, value.v))
            /\ last' = [name |-> image, dispatched |-> TRUE,
                        result |-> result, value |-> value, save |-> how]
            /\ UNCHANGED failed_files
       ELSE /\ dir' = save_caption(dir, image, value.v, args.template, how)
            /\ last' = [name |-> image, dispatched |-> TRUE,
                        result |-> result, value |-> value, save |-> how]
            /\ events' = ev
            /\ UNCHANGED <<processed_files, failed_files>>
  ELSE /\ failed_files' = Append(failed_files, image)
       /\ last' = [name |-> image, dispatched |-> TRUE,
                   result |-> result, value |-> value, save |-> "none"]
       /\ events' = ev
       /\ UNCHANGED <<dir, processed_files>>

\* mutant of Classify: the text is saved before it is tested, so the
\* sidecar of an image that ends failed is written too
Classify_SaveFirst(image, result, value, how, ev) ==
  IF Truthy(value) /\ value.t = "str" /\ ~StartsWith(value.v, T_Error)
  THEN IF how = "ok"
       THEN /\ dir' = save_caption(dir, image, value.v, args.template, how)
            /\ processed_files' = Append(processed_files, image)
            /\ events' = Append(ev, FileProcessedEvent(image, value.v))
            /\ last' = [name |-> image, dispatched |-> TRUE,
                        result |-> result, value |-> value, save |-> how]
            /\ UNCHANGED failed_files
       ELSE /\ dir' = save_caption(dir, image, value.v, args.template, how)
            /\ failed_files' = Append(failed_files, image)
            /\ last' = [name |-> image, dispatched |-> TRUE,
                        result |-> result, value |-> value, save |-> how]
            /\ events' = ev
            /\ UNCHANGED processed_files
  ELSE /\ dir' = IF value.t = "str"
                 THEN save_caption(dir, image, value.v, args.template, "ok")
                 ELSE dir
       /\ failed_files' = Append(failed_files, image)
       /\ last' = [name |-> image, dispatched |-> TRUE,
                   result |-> result, value |-> value, save |-> "none"]
       /\ events' = ev
       /\ UNCHANGED processed_files

\* lines 186-202: classification of the value the invoker returned
Classify(image, result, value, how, ev) ==
  IF Truthy(value) /\ value.t = "str" /\ ~StartsWith(value.v, T_Error)
  THEN IF how = "ok"
       THEN /\ dir' = save_caption(dir, image, value.v, args.template, how)
            /\ processed_files' = Append(processed_files, image)
            /\ events' = Append(ev, FileProcessedEvent(image, value.v))
            /\ last' = [name |-> image, dispatched |-> TRUE,
                        result |-> result, value |-> value, save |-> how]
            /\ UNCHANGED failed_files
       ELSE \* save_caption raises: the per-image handler
            /\ dir' = save_caption(dir, image, value.v, args.template, how)
            /\ failed_files' = Append(failed_files, image)
            /\ last' = [name |-> image, dispatched |-> TRUE,
                        result |-> result, value |-> value, save |-> how]
            /\ events' = ev
            /\ UNCHANGED processed_files
  ELSE \* falsy value, error marker, or AttributeError on a value that is
       \* not a str: the image is appended to failed_files
       /\ failed_files' = Append(failed_files, image)
       /\ last' = [name |-> image, dispatched |-> TRUE,
                   result |-> result, value |-> value, save |-> "none"]
       /\ events' = ev
       /\ UNCHANGED <<dir, processed_files>>

\* loop body, lines 162-168: the image already has a caption
LoopSkip ==
  /\ pc = "loop"
  /\ idx <= Len(image_files)
  /\ ShouldSkip(args.overwrite, dir, image_files[idx])
  /\ skipped_files' = Append(skipped_files, image_files[idx])
  /\ events' = Append(events, ProgressEvent(
         Msg("Skipped {} (caption exists)", <<image_files[idx]>>)))
  /\ last' = [name |-> image_files[idx], dispatched |-> FALSE,
              result |-> NoResult, value |-> PyNone, save |-> "none"]
  /\ idx' = idx + 1
  /\ UNCHANGED <<pc, args, folder, dir0, dir, image_files, processed_files,
                 failed_files, exitcode, spawned, running>>

\* mutant of LoopDispatch: the worker is started without being awaited
\* (Popen for run), and the loop goes on to the next image
LoopDispatch_NoWait ==
  /\ pc = "loop"
  /\ idx <= Len(image_files)
  /\ ~ShouldSkip(args.overwrite, dir, image_files[idx])
  /\ LET image == image_files[idx]
         ev == Append(events,
                      ProcessingEvent(idx, Len(image_files), image))
         built == BuildCmd(T_SourceFolder \o <<"/">> \o image, args.model,
                           args.style, args.max_tokens)
     IN /\ spawned' = Append(spawned, built.cmd)
        /\ running' = Append(running, built.cmd)
        /\ events' = ev
        /\ failed_files' = Append(failed_files, image)
        /\ last' = [name |-> image, dispatched |-> TRUE,
                    result |-> NoResult, value |-> PyNone, save |-> "none"]
        /\ idx' = idx + 1
        /\ UNCHANGED <<pc, dir, processed_files>>
  /\ UNCHANGED <<args, folder, dir0, image_files, skipped_files, exitcode>>

\* loop body, lines 170-184 up to subprocess.run: the image is dispatched
LoopDispatch ==
  /\ pc = "loop"
  /\ idx <= Len(image_files)
  /\ ~ShouldSkip(args.overwrite, dir, image_files[idx])
  /\ LET image == image_files[idx]
         ev == Append(events,
                      ProcessingEvent(idx, Len(image_files), image))
         built == BuildCmd(T_SourceFolder \o <<"/">> \o image, args.model,
                           args.style, args.max_tokens)
     IN IF built.ok
        THEN /\ spawned' = Append(spawned, built.cmd)
             /\ running' = <<built.cmd>>
             /\ events' = ev
             /\ pc' = "waiting"
             /\ UNCHANGED <<dir, idx, processed_files, failed_files, last>>
        ELSE /\ Classify(image, NoResult, UnsupportedValue(args.model),
                         "none", ev)
             /\ idx' = idx + 1
             /\ UNCHANGED <<pc, spawned, running>>
  /\ UNCHANGED <<args, folder, dir0, image_files, skipped_files, exitcode>>

\* mutant of BackendReturns: a timed-out invocation is retried once
BackendReturns_RetryOnTimeout ==
  /\ pc = "waiting"
  /\ \E result \in Results, how \in SaveOutcomes :
       IF result.kind = "timeout"
            /\ Cardinality({k \in 1..Len(spawned) :
                              spawned[k] = running[1]}) < 2
       THEN /\ spawned' = Append(spawned, running[1])
            /\ UNCHANGED <<pc, idx, running, dir, processed_files,
                           failed_files, events, last>>
       ELSE /\ Classify(image_files[idx], result,
                        ReturnValue(args.model, result), how, events)
            /\ running' = <<>>
            /\ idx' = idx + 1
            /\ pc' = "loop"
            /\ UNCHANGED spawned
  /\ UNCHANGED <<args, folder, dir0, image_files, skipped_files, exitcode>>

\* subprocess.run returns or times out; lines 104-123 and 186-202
BackendReturns ==
  /\ pc = "waiting"
  /\ \E result \in Results, how \in SaveOutcomes :
       Classify(image_files[idx], result, ReturnValue(args.model, result),
                how, events)
  /\ running' = <<>>
  /\ idx' = idx + 1
  /\ pc' = "loop"
  /\ UNCHANGED <<args, folder, dir0, image_files, skipped_files, exitcode,
                 spawned>>

\* mutant of Summary: the loop bound is off by one, so the summary is
\* printed when the last image is still to be handled
Summary_OffByOne ==
  /\ pc = "loop"
  /\ idx >= Len(image_files)
  /\ events' = events \o
       << SummaryEvent(Len(image_files), processed_files, skipped_files,
                       failed_files),
          ProgressEvent(Msg(
            "Batch caption generation completed! Processed: {}, Skipped: {}, Failed: {}",
            <<Len(processed_files), Len(skipped_files), Len(failed_files)>>)) >>
  /\ exitcode' = 0
  /\ pc' = "done"
  /\ UNCHANGED <<args, folder, dir0, dir, image_files, idx, processed_files,
                 skipped_files, failed_files, spawned, running, last>>

\* lines 204-217: the summary and the closing progress event
Summary ==
  /\ pc = "loop"
  /\ idx > Len(image_files)
  /\ events' = events \o
       << SummaryEvent(Len(image_files), processed_files, skipped_files,
                       failed_files),
          ProgressEvent(Msg(
            "Batch caption generation completed! Processed: {}, Skipped: {}, Failed: {}",
            <<Len(processed_files), Len(skipped_files), Len(failed_files)>>)) >>
  /\ exitcode' = 0
  /\ pc' = "done"
  /\ UNCHANGED <<args, folder, dir0, dir, image_files, idx, processed_files,
                 skipped_files, failed_files, spawned, running, last>>

Next ==
  \/ ParseArgs
  \/ Discover
  \/ LoopSkip
  \/ LoopDispatch
  \/ BackendReturns
  \/ Summary

Spec == Init /\ [][Next]_vars

\* every step of main() is eventually taken: a backend invocation exits or
\* is cut off by the timeout
FairSpec == Spec /\ WF_vars(Next)

\* the runs without a template, over two of the backends and the
\* unsupported identifier
LiveInit ==
  /\ Init
  /\ args.template = PyNone
  /\ args.model \in {M_blip, M_florence2, M_other}

\* as FairSpec, on the inputs of LiveInit
LiveSpec == LiveInit /\ [][Next]_vars /\ WF_vars(Next)

TypeOK ==
  /\ pc \in {"parse", "discover", "loop", "waiting", "done"}
  /\ exitcode \in {NoExit, 0, 1, ArgparseErrorExit}
  /\ Len(running) <= 1

(***************************************************************************)
(* Vocabulary of the properties                                            *)
(***************************************************************************)
InSeq(x, s) == \E k \in 1..Len(s) : s[k] = x

Count(x, s) == Cardinality({k \in 1..Len(s) : s[k] = x})

SummaryEvents == {k \in 1..Len(events) : events[k].type = "summary"}

ErrorEvents == {k \in 1..Len(events) : events[k].type = "error"}

\* the run went through its loop and returned from main()
Completed == pc = "done" /\ image_files # <<>>

\* the sidecar names of the folder
SidecarNames == {n \in FileNames : Suffix(n) = T_txt}

\* save_caption raised while the last image was handled
SaveRaised == last.save \in {"open_failed", "write_failed"}

\* startswith raised AttributeError while the last image was handled
StartswithRaised ==
  last.dispatched /\ Truthy(last.value) /\ last.value.t # "str"

\* the backend process of the last image exited with status 0
ExitedZero == last.result.kind = "exit" /\ last.result.returncode = 0

(***************************************************************************)
(* C1: after a completed run over at least one image, every discovered     *)
(* image is in exactly one of skipped_files, processed_files, failed_files *)
(* and the summary event has processed + skipped + failed = total_files.   *)
(***************************************************************************)
C1_Partition ==
  Completed =>
    /\ \A k \in 1..Len(image_files) :
         Count(image_files[k], skipped_files)
           + Count(image_files[k], processed_files)
           + Count(image_files[k], failed_files) = 1
    /\ SummaryEvents # {}
    /\ \A k \in SummaryEvents :
         events[k].processed + events[k].skipped + events[k].failed
           = events[k].total_files

\* a run that skipped one image and failed the other on a write error
C1_Witness ==
  /\ Completed
  /\ Len(skipped_files) = 1
  /\ Len(failed_files) = 1
  /\ SaveRaised

(***************************************************************************)
(* C2: when no sidecar exists at the start and overwrite is off, the run   *)
(* ends with skipped = 0 and processed + failed = N.  Refuted: two images  *)
(* with the same stem share one sidecar, so the second one is skipped.     *)
(***************************************************************************)
C2_NoSidecarNoSkip ==
  (Completed /\ ~args.overwrite /\ \A n \in SidecarNames : ~dir0[n].e) =>
    /\ Len(skipped_files) = 0
    /\ Len(processed_files) + Len(failed_files) = Len(image_files)

(***************************************************************************)
(* C3: an image is skipped iff overwrite is off and its sidecar exists     *)
(* when the loop reaches it, and no backend is invoked for it; with all    *)
(* sidecars present and overwrite off every image is skipped and nothing   *)
(* is spawned; with overwrite on every image is dispatched.                *)
(***************************************************************************)
DispatchedFor(image) ==
  \E k \in 1..Len(spawned) :
    spawned[k][4] = T_SourceFolder \o <<"/">> \o image

C3_SkipStep ==
  (pc = "loop" /\ idx <= Len(image_files)) =>
    /\ (skipped_files' # skipped_files)
         <=> (~args.overwrite /\ dir[caption_path(image_files[idx])].e)
    /\ (skipped_files' # skipped_files) =>
         /\ skipped_files' = Append(skipped_files, image_files[idx])
         /\ spawned' = spawned
         /\ pc' = "loop"
    /\ (skipped_files' = skipped_files) => DispatchedFor(image_files[idx])'

C3_AtEnd ==
  Completed =>
    /\ (~args.overwrite /\ \A k \in 1..Len(image_files) :
                              dir0[caption_path(image_files[k])].e)
         => (Len(skipped_files) = Len(image_files) /\ spawned = <<>>)
    /\ args.overwrite =>
         /\ skipped_files = <<>>
         /\ \A k \in 1..Len(image_files) : DispatchedFor(image_files[k])

C3_SkipPolicy == [][C3_SkipStep]_vars /\ []C3_AtEnd

\* a run that skipped both of its images without spawning a process
C3_Witness ==
  /\ Completed
  /\ Len(skipped_files) = 2
  /\ spawned = <<>>

(***************************************************************************)
(* C4 as stated: a dispatched image is processed iff its backend exited 0  *)
(* and the returned text does not begin with "Error", the empty text       *)
(* included.  Refuted: an empty text is classified Failed.                 *)
(***************************************************************************)
C4_SucceededIffNoMarker ==
  (last.dispatched /\ last.result.kind # "none" /\ last.value.t = "str"
     /\ ~SaveRaised) =>
    (InSeq(last.name, processed_files)
       <=> (ExitedZero /\ ~StartsWith(last.value.v, T_Error)))

(***************************************************************************)
(* C4 amended: a dispatched image is processed, with the template-applied  *)
(* caption in its sidecar, iff its backend exited 0, the returned value is *)
(* a non-empty string that does not begin with "Error", and save_caption   *)
(* did not raise; otherwise it is failed.                                  *)
(***************************************************************************)
C4_SucceededIffUsableText ==
  (last.dispatched /\ last.result.kind # "none") =>
    /\ InSeq(last.name, processed_files)
         <=> /\ ExitedZero
             /\ last.value.t = "str"
             /\ last.value.v # <<>>
             /\ ~StartsWith(last.value.v, T_Error)
             /\ last.save = "ok"
    /\ InSeq(last.name, processed_files) =>
         /\ dir[caption_path(last.name)].e
         /\ dir[caption_path(last.name)].data =
              (IF args.template.t = "str"
                    /\ Contains(args.template.v, T_placeholder)
               THEN Replace(args.template.v, T_placeholder, last.value.v)
               ELSE last.value.v)
    /\ ~InSeq(last.name, processed_files) => InSeq(last.name, failed_files)

\* an image processed under a template that has the placeholder
C4_Witness ==
  /\ last.dispatched
  /\ ExitedZero
  /\ InSeq(last.name, processed_files)
  /\ args.template = PyStr(Tpl_photo)

(***************************************************************************)
(* C5: an exception raised while an image is handled (save_caption fails,  *)
(* or startswith fails on a value that is not a string) makes that image   *)
(* failed and not processed and does not end the run: the loop moves to    *)
(* the next image, and a run that entered its loop ends only with every    *)
(* image classified and its summary emitted.                               *)
(***************************************************************************)
RaisedAtLast == SaveRaised \/ StartswithRaised

AllClassified ==
  Len(processed_files) + Len(skipped_files) + Len(failed_files)
    = Len(image_files)

C5_FailedNotProcessed ==
  RaisedAtLast =>
    /\ InSeq(last.name, failed_files)
    /\ ~InSeq(last.name, processed_files)
    /\ ErrorEvents = {}
    /\ exitcode \in {NoExit, 0}

\* the step in which the exception is raised and caught
C5_Step ==
  (pc = "waiting" /\ RaisedAtLast') =>
    /\ pc' = "loop"
    /\ idx' = idx + 1
    /\ failed_files' = Append(failed_files, image_files[idx])
    /\ processed_files' = processed_files
    /\ exitcode' = NoExit
    /\ events' = events

\* a run that entered its loop ends only through its summary
RunEndsWithSummary ==
  Completed => (exitcode = 0 /\ AllClassified /\ SummaryEvents # {})

C5_PerImageIsolation ==
  /\ []C5_FailedNotProcessed
  /\ [][C5_Step]_vars
  /\ []RunEndsWithSummary

\* a write error on the first of two images, the second still to come
C5_Witness ==
  /\ SaveRaised
  /\ pc = "loop"
  /\ idx = 2
  /\ Len(image_files) = 2

(***************************************************************************)
(* C6: a backend that exceeds the timeout yields the value                 *)
(* "Error: Caption generation timed out" (nothing is raised), the image is *)
(* failed, no file of the folder changes, the loop moves to the next image *)
(* and the run ends only with its summary.                                 *)
(***************************************************************************)
TimedOutAtLast == last.result.kind = "timeout"

C6_Failed ==
  TimedOutAtLast =>
    /\ last.value.t = "str"
    /\ StartsWith(last.value.v, T_Error)
    /\ InSeq(last.name, failed_files)
    /\ ~InSeq(last.name, processed_files)
    /\ last.save = "none"
    /\ ErrorEvents = {}
    /\ exitcode \in {NoExit, 0}

C6_Step ==
  (pc = "waiting" /\ TimedOutAtLast' /\ last'.name = image_files[idx]) =>
    /\ dir' = dir
    /\ pc' = "loop"
    /\ idx' = idx + 1
    /\ failed_files' = Append(failed_files, image_files[idx])
    /\ exitcode' = NoExit

C6_TimeoutIsFailure ==
  /\ []C6_Failed
  /\ [][C6_Step]_vars
  /\ [](Completed => (exitcode = 0 /\ Cardinality(SummaryEvents) = 1))

\* the first of two images timed out, the second still to come
C6_Witness ==
  /\ TimedOutAtLast
  /\ pc = "loop"
  /\ idx = 2
  /\ Len(image_files) = 2

(***************************************************************************)
(* C7 as stated: with florence-2, exit status 0 and standard output that   *)
(* is not JSON, the image is processed and the trimmed output is the       *)
(* caption in its sidecar, for every such output.  Refuted: an empty       *)
(* output, or one that begins with "Error", is classified Failed.          *)
(***************************************************************************)
MalformedJson ==
  /\ last.dispatched
  /\ args.model = M_florence2
  /\ ExitedZero
  /\ JsonLoads(Strip(last.result.stdout)).t = "invalid"

C7_MalformedJsonSucceeds ==
  (MalformedJson /\ ~SaveRaised) =>
    /\ InSeq(last.name, processed_files)
    /\ dir[caption_path(last.name)] =
         File(FinalCaption(Strip(last.result.stdout), args.template))

(***************************************************************************)
(* C7 amended: with florence-2, exit status 0 and standard output that is  *)
(* not JSON, the trimmed output is the caption; the image is processed,    *)
(* with that caption (template applied) in its sidecar, iff the trimmed    *)
(* output is non-empty, does not begin with "Error", and save_caption did  *)
(* not raise; otherwise it is failed.                                      *)
(***************************************************************************)
C7_MalformedJsonUsesRawText ==
  MalformedJson =>
    /\ last.value = PyStr(Strip(last.result.stdout))
    /\ InSeq(last.name, processed_files)
         <=> /\ Strip(last.result.stdout) # <<>>
             /\ ~StartsWith(Strip(last.result.stdout), T_Error)
             /\ last.save = "ok"
    /\ InSeq(last.name, processed_files) =>
         dir[caption_path(last.name)] =
           File(FinalCaption(Strip(last.result.stdout), args.template))
    /\ ~InSeq(last.name, processed_files) => InSeq(last.name, failed_files)

\* a truncated JSON document that became the caption
C7_Witness ==
  /\ MalformedJson
  /\ last.result.stdout = O_json_cut
  /\ InSeq(last.name, processed_files)

(***************************************************************************)
(* C8: with florence-2 and exit status 0, standard output that is JSON of  *)
(* an unexpected shape (not an object, no caption field, a caption that is *)
(* null or not a string) never makes the image failed.  Refuted by the     *)
(* code: such output ends in failed_files.                                 *)
(***************************************************************************)
UnexpectedShape(r) ==
  /\ r.t # "invalid"
  /\ \/ r.t # "dict"
     \/ \A k \in 1..Len(r.v) : r.v[k].key # T_captionKey
     \/ DictGet(r, T_captionKey, PyNone).t # "str"

C8_ShapeNeverFails ==
  ( /\ last.dispatched
    /\ args.model = M_florence2
    /\ ExitedZero
    /\ UnexpectedShape(JsonLoads(Strip(last.result.stdout)))
    /\ ~SaveRaised )
  => ~InSeq(last.name, failed_files)

C10_ErrorExitsNonZero ==
  (pc = "done" /\ ErrorEvents # {}) => exitcode \notin {NoExit, 0}

(***************************************************************************)
(* C11: a run on a source folder that does not exist emits exactly one     *)
(* error event and no summary event, spawns no backend and writes no file. *)
(***************************************************************************)
C11_MissingFolder ==
  (~folder /\ args.model \in ModelChoices) =>
    /\ SummaryEvents = {}
    /\ spawned = <<>>
    /\ running = <<>>
    /\ dir = dir0
    /\ \A n \in FileNames : ~dir[n].e
    /\ Len(events) <= 1
    /\ pc = "done" =>
         (Len(events) = 1 /\ events[1].type = "error" /\ exitcode = 1)

\* the run on the missing folder, over
C11_Witness ==
  /\ ~folder
  /\ pc = "done"
  /\ ErrorEvents # {}

(***************************************************************************)
(* C12: when discovery yields zero images the run emits exactly one event, *)
(* of type error, and returns without starting the loop: no progress or    *)
(* summary event, no backend invoked, no file written.                     *)
(***************************************************************************)
NoImageAtStart ==
  /\ folder
  /\ args.model \in ModelChoices
  /\ \A n \in FileNames :
       dir0[n].e => Lower(Suffix(n)) \notin IMAGE_EXTENSIONS

C12_ZeroImages ==
  NoImageAtStart =>
    /\ \A k \in 1..Len(events) : events[k].type = "error"
    /\ Len(events) <= 1
    /\ pc \in {"parse", "discover", "done"}
    /\ idx = 0
    /\ spawned = <<>>
    /\ running = <<>>
    /\ dir = dir0
    /\ pc = "done" => Len(events) = 1

\* the run over a folder that holds a sidecar and a .gif but no image
C12_Witness ==
  /\ NoImageAtStart
  /\ dir0[N_a_txt].e
  /\ dir0[N_b_gif].e
  /\ pc = "done"
  /\ Len(events) = 1

(***************************************************************************)
(* C13: processing is strictly sequential and in discovery order: at most  *)
(* one backend process runs at any time, an image is examined (skip test,  *)
(* dispatch) only when every image before it is terminal, also after a     *)
(* timeout, and each result list keeps the discovery order.                *)
(***************************************************************************)
Terminal(image) ==
  \/ InSeq(image, skipped_files)
  \/ InSeq(image, processed_files)
  \/ InSeq(image, failed_files)

PosOf(image) == CHOOSE k \in 1..Len(image_files) : image_files[k] = image

InDiscoveryOrder(list) ==
  \A i \in 1..Len(list) : \A j \in (i + 1)..Len(list) :
    /\ InSeq(list[i], image_files)
    /\ InSeq(list[j], image_files)
    /\ PosOf(list[i]) < PosOf(list[j])

C13_Sequential ==
  /\ Len(running) <= 1
  /\ (running # <<>>) <=> (pc = "waiting")
  /\ pc = "waiting" =>
       /\ idx \in 1..Len(image_files)
       /\ running[1][4] = T_SourceFolder \o <<"/">> \o image_files[idx]
       /\ spawned[Len(spawned)] = running[1]
  /\ \A k \in 1..Len(image_files) :
       /\ Terminal(image_files[k]) <=> k < idx
       /\ (k > idx \/ (k = idx /\ pc = "loop")) =>
            ~DispatchedFor(image_files[k])
  /\ \A i \in 1..Len(image_files) : \A j \in (i + 1)..Len(image_files) :
       StrLess(image_files[i], image_files[j])
  /\ InDiscoveryOrder(skipped_files)
  /\ InDiscoveryOrder(processed_files)
  /\ InDiscoveryOrder(failed_files)

C13_SpawnStep ==
  spawned' # spawned =>
    /\ running = <<>>
    /\ pc = "loop"
    /\ Len(spawned') = Len(spawned) + 1

C13_StrictSequence == []C13_Sequential /\ [][C13_SpawnStep]_vars

\* the first image timed out and the second one is in flight
C13_Witness ==
  /\ pc = "waiting"
  /\ idx = 2
  /\ TimedOutAtLast
  /\ Len(spawned) = 2

(***************************************************************************)
(* C14: no retries: every discovered image causes at most one backend      *)
(* invocation, and exactly one when it is dispatched, whatever the outcome *)
(* (success, non-zero exit, timeout, error-marker text).                   *)
(***************************************************************************)
SpawnCount(image) ==
  Cardinality({k \in 1..Len(spawned) :
                 spawned[k][4] = T_SourceFolder \o <<"/">> \o image})

C14_NoRetry ==
  /\ Len(spawned) <= Len(image_files)
  /\ \A k \in 1..Len(image_files) :
       /\ SpawnCount(image_files[k]) <= 1
       /\ k < idx =>
            (SpawnCount(image_files[k]) = 1
               <=> ~InSeq(image_files[k], skipped_files))
       /\ (k = idx /\ pc = "waiting") => SpawnCount(image_files[k]) = 1
  /\ pc \in {"loop", "done"} =>
       Len(spawned) = Len(processed_files) + Len(failed_files)

\* two images, both dispatched, the first failed and the second timed out
C14_Witness ==
  /\ Completed
  /\ Len(failed_files) = 2
  /\ TimedOutAtLast
  /\ Len(spawned) = 2

(***************************************************************************)
(* C15: for every discovered image, whatever its terminal state, a         *)
(* progress event about the image is emitted before it is handled and an   *)
(* event about it after it is handled.  Refuted by the code: a failed      *)
(* image has no event after it, a skipped image has a single event.        *)
(***************************************************************************)
EventAbout(e, image) ==
  \/ e.type = "file_processed" /\ e.filename = image
  \/ /\ e.type = "progress"
     /\ e.message.fmt = "Processing {}/{}: {}"
     /\ e.filename = image
  \/ /\ e.type = "progress"
     /\ e.message.fmt = "Skipped {} (caption exists)"
     /\ e.message.args[1] = image

C15_EventBeforeAndAfter ==
  \A k \in 1..Len(image_files) :
    Terminal(image_files[k]) =>
      \E i \in 1..Len(events) : \E j \in (i + 1)..Len(events) :
        /\ events[i].type = "progress"
        /\ EventAbout(events[i], image_files[k])
        /\ EventAbout(events[j], image_files[k])

(***************************************************************************)
(* C16: every run that discovers at least one image eventually emits its   *)
(* summary event, exactly one, and only once the last image is terminal,   *)
(* provided every backend invocation exits or is cut off by the timeout.   *)
(***************************************************************************)
C16_SummaryAfterLast ==
  SummaryEvents # {} =>
    /\ Cardinality(SummaryEvents) = 1
    /\ pc = "done"
    /\ idx = Len(image_files) + 1
    /\ \A k \in 1..Len(image_files) : Terminal(image_files[k])

C16_EventuallySummary ==
  /\ []C16_SummaryAfterLast
  /\ (pc = "loop") ~> (pc = "done" /\ Cardinality(SummaryEvents) = 1)

\* the summary of a run of two images whose last image timed out
C16_Witness ==
  /\ Completed
  /\ Cardinality(SummaryEvents) = 1
  /\ Len(image_files) = 2
  /\ TimedOutAtLast

(***************************************************************************)
(* C17: after a completed run the sidecar of every processed image holds   *)
(* exactly the template-applied caption produced for that image in this    *)
(* run, images sharing a base name included.  The caption of an image is   *)
(* read from its file_processed event, which carries it whole when it has  *)
(* at most TruncLimit characters.                                          *)
(***************************************************************************)
C17_SidecarHoldsCaption ==
  Completed =>
    \A i \in 1..Len(events) :
      (/\ events[i].type = "file_processed"
       /\ Len(events[i].caption) <= TruncLimit)
      => dir[caption_path(events[i].filename)] =
           File(FinalCaption(events[i].caption, args.template))

(***************************************************************************)
(* C18: save_caption writes the sidecar of the image, whatever it held     *)
(* before: the template with its placeholder replaced by the caption when  *)
(* a template containing the placeholder is given, the raw caption         *)
(* otherwise; nothing else in the folder changes.  "Photo of {caption}"    *)
(* with the caption "a cat" gives "Photo of a cat".                        *)
(***************************************************************************)
\* the positions of text t at which the placeholder starts
PlaceholderAt(t) ==
  {k \in 1..Len(t) :
     /\ k + Len(T_placeholder) - 1 <= Len(t)
     /\ SubSeq(t, k, k + Len(T_placeholder) - 1) = T_placeholder}

\* the text the claim expects in the sidecar, for a template with at most
\* one placeholder
C18_Expected(caption, template) ==
  IF template.t = "str" /\ PlaceholderAt(template.v) # {}
  THEN LET k == CHOOSE n \in PlaceholderAt(template.v) : TRUE
       IN  SubSeq(template.v, 1, k - 1) \o caption \o
           SubSeq(template.v, k + Len(T_placeholder), Len(template.v))
  ELSE caption

C18_Example ==
  FinalCaption(<<"a", " ", "c", "a", "t">>, PyStr(Tpl_photo)) =
    <<"P", "h", "o", "t", "o", " ", "o", "f", " ",
         "a", " ", "c", "a", "t">>

C18_SaveStep ==
  Len(processed_files') > Len(processed_files) =>
    /\ last'.save = "ok"
    /\ dir' = [dir EXCEPT ![caption_path(last'.name)] =
                 File(C18_Expected(last'.value.v, args.template))]
    /\ C18_Example

C18_SaveCaption == [][C18_SaveStep]_vars

\* a.jpg was processed under the template "Photo of {caption}" and its
\* sidecar, which held another text at the start, now reads
\* "Photo of a cat"
C18_Witness ==
  /\ last.name = N_a_jpg
  /\ last.save = "ok"
  /\ InSeq(N_a_jpg, processed_files)
  /\ args.template = PyStr(Tpl_photo)
  /\ dir0[N_a_txt] = File(T_old)
  /\ dir[N_a_txt] =
       File(<<"P", "h", "o", "t", "o", " ", "o", "f", " ",
         "a", " ", "c", "a", "t">>)

(***************************************************************************)
(* C19: a backend that exits with a non-zero status gives a failure that   *)
(* carries its trimmed error output, or "Unknown error" when there is      *)
(* none; the image is Failed and no sidecar is written, for every error    *)
(* output.                                                                  *)
(***************************************************************************)
NonZeroExitAtLast ==
  last.result.kind = "exit" /\ last.result.returncode # 0

C19_Failed ==
  NonZeroExitAtLast =>
    /\ last.value =
         PyStr(T_ErrorPrefix \o
               (IF \E k \in 1..Len(last.result.stderr) :
                     last.result.stderr[k] \notin Whitespace
                THEN Strip(last.result.stderr)
                ELSE <<"U", "n", "k", "n", "o", "w", "n", " ",
                       "e", "r", "r", "o", "r">>))
    /\ last.result.stderr = E_boom =>
         last.value.v =
           <<"E", "r", "r", "o", "r", ":", " ", "b", "o", "o", "m">>
    /\ InSeq(last.name, failed_files)
    /\ ~InSeq(last.name, processed_files)
    /\ last.save = "none"

\* the step on which a worker returns with a non-zero status changes no
\* file and emits no file_processed event
C19_Step ==
  (running # <<>> /\ running' = <<>> /\ last'.result.kind = "exit"
     /\ last'.result.returncode # 0) =>
    /\ dir' = dir
    /\ events' = events
    /\ processed_files' = processed_files

C19_NonZeroExitIsFailure == []C19_Failed /\ [][C19_Step]_vars

\* a.jpg, whose sidecar exists, failed on a worker that exited with a
\* non-zero status and wrote " boom\n" to its error output
C19_Witness ==
  /\ NonZeroExitAtLast
  /\ last.result.stderr = E_boom
  /\ last.name = N_a_jpg
  /\ InSeq(N_a_jpg, failed_files)
  /\ dir[N_a_txt] = File(T_old)

(***************************************************************************)
(* C20: a file_processed event is emitted exactly once for every Succeeded *)
(* image and for no other image; its caption field is the caption when it  *)
(* has at most 100 characters, its first 100 characters followed by "..."  *)
(* otherwise.                                                               *)
(***************************************************************************)
FileProcessedEvents(image) ==
  {k \in 1..Len(events) :
     events[k].type = "file_processed" /\ events[k].filename = image}

C20_OncePerSucceeded ==
  \A image \in ImageNames :
    Cardinality(FileProcessedEvents(image)) = Count(image, processed_files)

\* the event appended on the step that makes an image Succeeded
C20_Step ==
  IF Len(processed_files') > Len(processed_files)
  THEN LET e == events'[Len(events')]
           caption == last'.value.v
       IN  /\ events' = Append(events, e)
           /\ e.type = "file_processed"
           /\ e.filename = last'.name
           /\ Len(caption) <= TruncLimit => e.caption = caption
           /\ Len(caption) > TruncLimit =>
                /\ Len(e.caption) = TruncLimit + 3
                /\ SubSeq(e.caption, 1, TruncLimit) =
                     SubSeq(caption, 1, TruncLimit)
                /\ SubSeq(e.caption, TruncLimit + 1, TruncLimit + 3) =
                     <<".", ".", ".">>
  ELSE \A k \in 1..Len(events') :
         events'[k].type = "file_processed" =>
           k <= Len(events) /\ events[k] = events'[k]

C20_FileProcessedEvent == []C20_OncePerSucceeded /\ [][C20_Step]_vars

\* an image with a caption longer than the limit was processed, after an
\* image that was not
C20_Witness ==
  /\ last.save = "ok"
  /\ InSeq(last.name, processed_files)
  /\ Len(last.value.v) > TruncLimit
  /\ events[Len(events)].type = "file_processed"
  /\ Len(events[Len(events)].caption) = TruncLimit + 3
  /\ Len(failed_files) + Len(skipped_files) = 1

(***************************************************************************)
(* C21: for every supported backend identifier the command handed to the   *)
(* worker carries the image path, the requested style and the requested    *)
(* token/length budget among its arguments.                                *)
(***************************************************************************)
C21_CmdPassesRequest ==
  \A k \in 1..Len(spawned) :
    /\ \E i \in 1..Len(image_files) :
         InSeq(T_SourceFolder \o <<"/">> \o image_files[i], spawned[k])
    /\ InSeq(args.style, spawned[k])
    /\ InSeq(IntToText(args.max_tokens), spawned[k])

(***************************************************************************)
(* C22: handling an image that ends Skipped, or Failed because of what the *)
(* backend gave (timeout, non-zero exit, error-marker or empty text,       *)
(* unsupported backend), leaves its sidecar as it was: not created, not    *)
(* truncated, not rewritten; save_caption is called only for a caption     *)
(* that passed the test of the Succeeded path.                             *)
(***************************************************************************)
\* the step ends the handling of an image
SkipStep == Len(skipped_files') > Len(skipped_files)

FailStep == Len(failed_files') > Len(failed_files)

ClassifyStep ==
  Len(processed_files') + Len(failed_files')
    > Len(processed_files) + Len(failed_files)

\* the image handled by the step failed because of the backend outcome
BackendFailure(l) ==
  \/ l.result.kind = "timeout"
  \/ l.result.kind = "exit" /\ l.result.returncode # 0
  \/ l.value.t = "str" /\ (l.value.v = <<>> \/ StartsWith(l.value.v, T_Error))
  \/ l.result.kind = "none"

C22_Step ==
  /\ SkipStep => (dir' = dir /\ last'.save = "none")
  /\ (FailStep /\ BackendFailure(last')) =>
       (dir' = dir /\ last'.save = "none")
  /\ (ClassifyStep /\ last'.save # "none") =>
       /\ last'.result.kind = "exit"
       /\ last'.result.returncode = 0
       /\ last'.value.t = "str"
       /\ last'.value.v # <<>>
       /\ ~StartsWith(last'.value.v, T_Error)
  /\ dir' # dir =>
       /\ ClassifyStep
       /\ last'.save \in {"ok", "write_failed"}
       /\ \A n \in FileNames :
            n # caption_path(last'.name) => dir'[n] = dir[n]
  /\ StartsWith(UnsupportedValue(M_other).v, T_Error)

C22_SidecarUntouched == [][C22_Step]_vars

\* a.jpg was skipped and its sidecar holds the old text; b.jpg, which has
\* no sidecar, failed on an error-marker text and still has none
C22_Witness ==
  /\ skipped_files = <<N_a_jpg>>
  /\ failed_files = <<N_b_jpg>>
  /\ last.result.kind = "exit"
  /\ last.result.returncode = 0
  /\ last.value.t = "str"
  /\ StartsWith(last.value.v, T_Error)
  /\ dir[N_a_txt] = File(T_old)
  /\ dir[N_b_txt] = Absent

====
